---------------------------- MODULE Spec2Model ----------------------------
(***************************************************************************)
(* AutoAttend: the attendance capture page (AttendanceCapture.tsx) and the  *)
(* student registration page (StudentRegistration).                        *)
(*                                                                         *)
(* Both are React function components.  A handler invoked by the operator  *)
(* reads the state of the latest render (the variables below); the part of *)
(* an async handler that runs after an await, and a setInterval callback,  *)
(* read the values their closure captured when the handler was invoked.    *)
(* Those captured values are kept in the record of the call in flight.     *)
(* Refs (videoRef, intervalRef) are shared mutable cells.                   *)
(***************************************************************************)
EXTENDS Integers, Sequences, FiniteSets

(***************************************************************************)
(* Bounds of the model.                                                    *)
(***************************************************************************)
MaxRecords == 4      \* rows the attendance table may hold
MaxTimers == 2       \* setInterval calls during one run
MaxStreams == 2      \* getUserMedia streams handed out during one run
MaxTicks == 2        \* interval callbacks in flight at once
MaxFetches == 2      \* fetchAttendanceRecords requests in flight at once
MaxFaces == 1        \* faces detected in one frame
MaxSelect == 2       \* changes of the course selector
MaxWebcamCalls == 1  \* startWebcam calls in flight at once
MaxBuilds == 1       \* startFaceRecognition calls awaiting the gallery
MaxRecognized == 4   \* length of the recognizedStudents array
MaxSubmits == 2      \* registrations submitted
MaxTenths == 10      \* largest threshold and distance given to the matcher

(***************************************************************************)
(* The students table: course c1 with two enrolled students, listed in     *)
(* the order of .order('name'), and a second course c2 with one student,   *)
(* which only the scenario of a changed selection offers.                  *)
(***************************************************************************)
NoCourse == ""
Courses == {"c1"}
Students == {"s1", "s2"}
OtherCourses == {"c2"}
OtherStudents == {"s3"}
Roster(c) ==
    IF c = "c1" THEN <<"s1", "s2">>
    ELSE IF c = "c2" THEN <<"s3">>
    ELSE <<>>

(***************************************************************************)
(* Faces that may stand in front of the camera, and the euclidean distance *)
(* (in tenths) of each to a student's reference descriptor.  "f1" is s1,   *)
(* "f2" is s2, "fx" is nobody enrolled.                                    *)
(***************************************************************************)
Faces == {"f1", "f2", "fx"}
Distance(face, s) ==
    IF (face = "f1" /\ s = "s1") \/ (face = "f2" /\ s = "s2") THEN 4
    ELSE IF face = "fx" THEN 8
    ELSE 9
distanceThreshold == 6
Unknown == "unknown"
Frames == UNION {[1..n -> Faces] : n \in 0..MaxFaces}
PhotoOutcomes == {"face", "noface", "loaderror"}

VARIABLES
    attendance,          \* the attendance table of today, in insertion order
    course,              \* useState: selected course
    students,            \* useState: roster of the selected course
    recognizedStudents,  \* useState: ids recognized (an array)
    attendanceRecords,   \* useState: last fetched attendance rows
    isWebcamActive, isModelLoading, isModelLoaded,
    isCapturing, isSubmitting,
    error, successMessage,
    srcObject,           \* videoRef.current.srcObject: a stream id, 0 for null
    intervalRef,         \* intervalRef.current: a timer id, 0 for null
    liveStreams,         \* streams whose tracks have not been stopped
    nStreams,            \* streams handed out so far
    timers,              \* live setInterval timers with what their callback captured
    nTimers,             \* timers created so far
    webcamCalls,         \* startWebcam calls in flight (where each awaits)
    buildCalls,          \* startFaceRecognition calls awaiting Promise.all
    ticks,               \* interval callbacks in flight
    fetches,             \* fetchAttendanceRecords requests in flight
    rosterFetches,       \* fetchStudentsByCourse requests in flight
    absentCall,          \* markAbsentStudents awaiting its insert
    nSelect,             \* course selections so far
    consoleLog,          \* students the gallery build wrote a console line about
    mounted,             \* the page is mounted (false once the operator navigated away)
    \* ---- one call of FaceMatcher.findBestMatch on a one-entry gallery ----
    matchThreshold,      \* the matcher's distanceThreshold (tenths)
    matchDistance,       \* distance of the live descriptor to the reference (tenths)
    matchLabel,          \* label of the returned FaceMatch ("none" before the call)
    \* ---- student registration page ----
    form,                \* which of name, studentId, course, photo are filled in
    regModelLoading,     \* useState isModelLoading (true until loadModels ends well)
    modelsCall,          \* loadModels is awaiting the nets
    isSaving,
    regError, regSuccess,
    submitCall,          \* handleSubmit in flight: where it awaits, and its filePath
    clock,               \* Date.now() of the last submit
    storage,             \* paths held by the 'images' bucket
    removeCalls,         \* paths storage.remove was called with
    studentRows,         \* photo paths of the rows inserted into students
    isUsingWebcam,       \* useState: the "Take Student Photo" dialog is open
    enrollSrcObject,     \* srcObject of the dialog's video element: a stream id, 0 for null
    enrollLiveStreams,   \* streams of this page whose tracks have not been stopped
    enrollStreams,       \* streams handed out to this page so far
    enrollWebcamCalls    \* startWebcam calls of this page awaiting getUserMedia

tableVars == <<attendance>>
stateVars == <<course, students, recognizedStudents, attendanceRecords,
               isWebcamActive, isModelLoading, isModelLoaded, isCapturing,
               isSubmitting, error, successMessage>>
refVars == <<srcObject, intervalRef, liveStreams, nStreams, timers, nTimers>>
callVars == <<webcamCalls, buildCalls, ticks, fetches, rosterFetches,
              absentCall, nSelect>>
logVars == <<consoleLog>>
lifeVars == <<mounted>>
matchVars == <<matchThreshold, matchDistance, matchLabel>>
captureVars == <<tableVars, stateVars, refVars, callVars, logVars, lifeVars,
                 matchVars>>
camVars == <<isUsingWebcam, enrollSrcObject, enrollLiveStreams, enrollStreams,
             enrollWebcamCalls>>
regVars == <<form, regModelLoading, modelsCall, isSaving, regError, regSuccess,
             submitCall, clock, storage, removeCalls, studentRows, camVars>>
vars == <<captureVars, regVars>>

NoCall == [ids |-> <<>>, course |-> NoCourse]
None == "none"

(***************************************************************************)
(* Sequence helpers.                                                       *)
(***************************************************************************)
Range(s) == {s[i] : i \in 1..Len(s)}
Includes(s, x) == x \in Range(s)
Remove(s, i) == [j \in 1..(Len(s) - 1) |-> IF j < i THEN s[j] ELSE s[j + 1]]
Reverse(s) == [j \in 1..Len(s) |-> s[Len(s) + 1 - j]]

PresentRecord(s, c) == [student_id |-> s, course |-> c, status |-> "present"]
AbsentRecord(s, c) == [student_id |-> s, course |-> c, status |-> "absent"]
RECURSIVE AbsentRecords(_, _)
AbsentRecords(ids, c) ==
    IF ids = <<>> THEN <<>>
    ELSE <<AbsentRecord(Head(ids), c)>> \o AbsentRecords(Tail(ids), c)

(***************************************************************************)
(* The rows a fetchAttendanceRecords query returns when the table held its *)
(* first n rows: those of the course, newest first.  The table is only     *)
(* ever appended to, so n identifies the snapshot the query read.          *)
(***************************************************************************)
RECURSIVE OfCourse(_, _)
OfCourse(rows, c) ==
    IF rows = <<>> THEN <<>>
    ELSE IF Head(rows).course = c THEN <<Head(rows)>> \o OfCourse(Tail(rows), c)
    ELSE OfCourse(Tail(rows), c)
QueryAttendance(n, c) == Reverse(OfCourse(SubSeq(attendance, 1, n), c))
RECURSIVE PresentIds(_)
PresentIds(rows) ==
    IF rows = <<>> THEN <<>>
    ELSE IF Head(rows).status = "present"
         THEN <<Head(rows).student_id>> \o PresentIds(Tail(rows))
         ELSE PresentIds(Tail(rows))

FormFields == {"name", "studentId", "course", "photo"}
NoSubmit == [pc |-> "idle", filePath |-> 0]

InitRegistration ==
    /\ form = {}
    /\ regModelLoading = TRUE
    /\ modelsCall = TRUE          \* useEffect(..., []) has called loadModels
    /\ isSaving = FALSE
    /\ regError = None
    /\ regSuccess = None
    /\ submitCall = NoSubmit
    /\ clock = 0
    /\ storage = {}
    /\ removeCalls = {}
    /\ studentRows = {}
    /\ isUsingWebcam = FALSE
    /\ enrollSrcObject = 0
    /\ enrollLiveStreams = {}
    /\ enrollStreams = 0
    /\ enrollWebcamCalls = 0

InitCapture ==
    /\ attendance = <<>>
    /\ course = NoCourse
    /\ students = <<>>
    /\ recognizedStudents = <<>>
    /\ attendanceRecords = <<>>
    /\ isWebcamActive = FALSE
    /\ isModelLoading = FALSE
    /\ isModelLoaded = FALSE
    /\ isCapturing = FALSE
    /\ isSubmitting = FALSE
    /\ error = None
    /\ successMessage = None
    /\ srcObject = 0
    /\ intervalRef = 0
    /\ liveStreams = {}
    /\ nStreams = 0
    /\ timers = {}
    /\ nTimers = 0
    /\ webcamCalls = <<>>
    /\ buildCalls = <<>>
    /\ ticks = <<>>
    /\ fetches = <<>>
    /\ rosterFetches = <<>>
    /\ absentCall = NoCall
    /\ nSelect = 0
    /\ consoleLog = {}
    /\ mounted = TRUE

(* The page's matcher: threshold 0.6, no call made through matchVars. *)
InitMatcher ==
    /\ matchThreshold = distanceThreshold
    /\ matchDistance = 0
    /\ matchLabel = None

Init == InitCapture /\ InitRegistration /\ InitMatcher

(***************************************************************************)
(* fetchAttendanceRecords(courseName) up to its await: the request is sent *)
(* and not yet served (snap = -1).                                         *)
(***************************************************************************)
fetchAttendanceRecords(c) == Append(fetches, [course |-> c, snap |-> -1])

(* The course selector changes: useEffect([course]) fetches the roster and *)
(* today's attendance of the new course.                                   *)
SelectCourse(c) ==
    /\ mounted
    /\ c # course
    /\ nSelect < MaxSelect
    /\ nSelect' = nSelect + 1
    /\ course' = c
    /\ IF c # NoCourse
       THEN /\ Len(fetches) < MaxFetches
            /\ rosterFetches' = Append(rosterFetches, c)
            /\ fetches' = fetchAttendanceRecords(c)
       ELSE UNCHANGED <<rosterFetches, fetches>>
    /\ UNCHANGED <<regVars, matchVars, lifeVars, logVars, tableVars, students, recognizedStudents, attendanceRecords,
                   isWebcamActive, isModelLoading, isModelLoaded, isCapturing,
                   isSubmitting, error, successMessage, refVars, webcamCalls,
                   buildCalls, ticks, absentCall>>

(* fetchStudentsByCourse after its await. *)
RosterFetchDone(i, ok) ==
    /\ i \in 1..Len(rosterFetches)
    /\ rosterFetches' = Remove(rosterFetches, i)
    /\ IF ok
       THEN students' = Roster(rosterFetches[i]) /\ UNCHANGED error
       ELSE error' = "Failed to load students" /\ UNCHANGED students
    /\ UNCHANGED <<regVars, matchVars, lifeVars, logVars, tableVars, course, recognizedStudents, attendanceRecords,
                   isWebcamActive, isModelLoading, isModelLoaded, isCapturing,
                   isSubmitting, successMessage, refVars, webcamCalls,
                   buildCalls, ticks, fetches, absentCall, nSelect>>

(* The database serves a fetchAttendanceRecords query. *)
FetchServe(i) ==
    /\ i \in 1..Len(fetches)
    /\ fetches[i].snap = -1
    /\ fetches' = [fetches EXCEPT ![i].snap = Len(attendance)]
    /\ UNCHANGED <<regVars, matchVars, lifeVars, logVars, tableVars, stateVars, refVars, webcamCalls, buildCalls,
                   ticks, rosterFetches, absentCall, nSelect>>

(* fetchAttendanceRecords after its await, with data. *)
FetchDeliver(i) ==
    /\ i \in 1..Len(fetches)
    /\ fetches[i].snap >= 0
    /\ LET data == QueryAttendance(fetches[i].snap, fetches[i].course)
       IN /\ attendanceRecords' = data
          /\ recognizedStudents' = PresentIds(data)
    /\ fetches' = Remove(fetches, i)
    /\ UNCHANGED <<regVars, matchVars, lifeVars, logVars, tableVars, course, students, isWebcamActive, isModelLoading,
                   isModelLoaded, isCapturing, isSubmitting, error,
                   successMessage, refVars, webcamCalls, buildCalls, ticks,
                   rosterFetches, absentCall, nSelect>>

(* fetchAttendanceRecords after its await, with an error: only logged. *)
FetchFail(i) ==
    /\ i \in 1..Len(fetches)
    /\ fetches[i].snap = -1
    /\ fetches' = Remove(fetches, i)
    /\ UNCHANGED <<regVars, matchVars, lifeVars, logVars, tableVars, stateVars, refVars, webcamCalls, buildCalls,
                   ticks, rosterFetches, absentCall, nSelect>>

(***************************************************************************)
(* startWebcam, up to its first await.  The button is rendered while the   *)
(* camera is not active and is disabled without a course or while the      *)
(* models load.                                                            *)
(***************************************************************************)
startWebcam ==
    /\ mounted
    /\ ~isWebcamActive /\ course # NoCourse /\ ~isModelLoading
    /\ Len(webcamCalls) < MaxWebcamCalls
    /\ error' = None
    /\ IF ~isModelLoaded
       THEN /\ isModelLoading' = TRUE       \* loadFaceRecognitionModels
            /\ webcamCalls' = Append(webcamCalls, "loadModels")
       ELSE /\ UNCHANGED isModelLoading
            /\ webcamCalls' = Append(webcamCalls, "getUserMedia")
    /\ UNCHANGED <<regVars, matchVars, lifeVars, logVars, tableVars, course, students, recognizedStudents,
                   attendanceRecords, isWebcamActive, isModelLoaded,
                   isCapturing, isSubmitting, successMessage, refVars,
                   buildCalls, ticks, fetches, rosterFetches, absentCall,
                   nSelect>>

(* loadFaceRecognitionModels after its await: it catches a failure itself, *)
(* so startWebcam goes on to getUserMedia either way.                      *)
loadFaceRecognitionModels(i, ok) ==
    /\ i \in 1..Len(webcamCalls)
    /\ webcamCalls[i] = "loadModels"
    /\ IF ok
       THEN isModelLoaded' = TRUE /\ UNCHANGED error
       ELSE error' = "Failed to load face recognition models"
            /\ UNCHANGED isModelLoaded
    /\ isModelLoading' = FALSE
    /\ webcamCalls' = [webcamCalls EXCEPT ![i] = "getUserMedia"]
    /\ UNCHANGED <<regVars, matchVars, lifeVars, logVars, tableVars, course, students, recognizedStudents,
                   attendanceRecords, isWebcamActive, isCapturing,
                   isSubmitting, successMessage, refVars, buildCalls, ticks,
                   fetches, rosterFetches, absentCall, nSelect>>

(* startWebcam after getUserMedia settles. *)
getUserMedia(i, ok) ==
    /\ i \in 1..Len(webcamCalls)
    /\ webcamCalls[i] = "getUserMedia"
    /\ webcamCalls' = Remove(webcamCalls, i)
    /\ IF ok
       THEN /\ nStreams < MaxStreams
            /\ nStreams' = nStreams + 1
            /\ liveStreams' = liveStreams \cup {nStreams + 1}
            /\ IF mounted                    \* if (videoRef.current)
               THEN srcObject' = nStreams + 1 /\ isWebcamActive' = TRUE
               ELSE UNCHANGED <<srcObject, isWebcamActive>>
            /\ UNCHANGED error
       ELSE /\ error' = "Failed to access webcam"
            /\ UNCHANGED <<nStreams, liveStreams, srcObject, isWebcamActive>>
    /\ UNCHANGED <<regVars, matchVars, lifeVars, logVars, tableVars, course, students, recognizedStudents,
                   attendanceRecords, isModelLoading, isModelLoaded,
                   isCapturing, isSubmitting, successMessage, intervalRef,
                   timers, nTimers, buildCalls, ticks, fetches, rosterFetches,
                   absentCall, nSelect>>

(* window.clearInterval(intervalRef.current); intervalRef.current = null *)
ClearInterval == {t \in timers : t.id # intervalRef}

(* stopWebcam ("Stop Camera", rendered while the camera is active). *)
stopWebcam ==
    /\ mounted
    /\ isWebcamActive
    /\ IF srcObject # 0
       THEN liveStreams' = liveStreams \ {srcObject} /\ srcObject' = 0
       ELSE UNCHANGED <<liveStreams, srcObject>>
    /\ IF intervalRef # 0
       THEN timers' = ClearInterval /\ intervalRef' = 0
       ELSE UNCHANGED <<timers, intervalRef>>
    /\ isWebcamActive' = FALSE
    /\ isCapturing' = FALSE
    /\ UNCHANGED <<regVars, matchVars, lifeVars, logVars, tableVars, course, students, recognizedStudents,
                   attendanceRecords, isModelLoading, isModelLoaded,
                   isSubmitting, error, successMessage, nStreams, nTimers,
                   callVars>>

(***************************************************************************)
(* The operator navigates away: the page unmounts and the cleanup of       *)
(* useEffect(..., []) calls stopWebcam.  Whether videoRef.current still    *)
(* holds the video element when that cleanup runs depends on the order in  *)
(* which the React version in use detaches refs and runs effect cleanups;  *)
(* `detached` says it is already null.  intervalRef is a plain cell and    *)
(* keeps its value.  Nothing can be pressed afterwards; the awaits in      *)
(* flight still resume, and their state setters no longer show anywhere.   *)
(***************************************************************************)
Unmount(detached) ==
    /\ mounted
    /\ mounted' = FALSE
    /\ IF ~detached /\ srcObject # 0
       THEN liveStreams' = liveStreams \ {srcObject} /\ srcObject' = 0
       ELSE UNCHANGED <<liveStreams, srcObject>>
    /\ IF intervalRef # 0
       THEN timers' = ClearInterval /\ intervalRef' = 0
       ELSE UNCHANGED <<timers, intervalRef>>
    /\ isWebcamActive' = FALSE
    /\ isCapturing' = FALSE
    /\ UNCHANGED <<regVars, matchVars, logVars, tableVars, course, students, recognizedStudents,
                   attendanceRecords, isModelLoading, isModelLoaded,
                   isSubmitting, error, successMessage, nStreams, nTimers,
                   callVars>>

(* The guard that opens startFaceRecognition (videoRef and canvasRef hold  *)
(* their elements for as long as the component is mounted).                *)
CanStartRecognition(webcamActive, roster) == webcamActive /\ Len(roster) # 0

(* startFaceRecognition up to its await of Promise.all ("Start Face        *)
(* Recognition", rendered while the camera is active and not capturing,    *)
(* disabled for an empty roster).  The interval callback reads the         *)
(* recognizedStudents array of this render only through includes(), so     *)
(* the call keeps the set of its elements.                                 *)
startFaceRecognition ==
    /\ mounted
    /\ isWebcamActive /\ ~isCapturing /\ Len(students) # 0
    /\ CanStartRecognition(isWebcamActive, students)
    /\ Len(buildCalls) < MaxBuilds
    /\ isCapturing' = TRUE
    /\ error' = None
    /\ buildCalls' = Append(buildCalls,
           [students |-> students, recognized |-> Range(recognizedStudents),
            course |-> course, hung |-> {}])
    /\ UNCHANGED <<regVars, matchVars, lifeVars, logVars, tableVars, course, students, recognizedStudents,
                   attendanceRecords, isWebcamActive, isModelLoading,
                   isModelLoaded, isSubmitting, successMessage, refVars,
                   webcamCalls, ticks, fetches, rosterFetches, absentCall,
                   nSelect>>

(* labeledDescriptors filtered of its nulls: the students whose photo      *)
(* loaded and showed a face, in roster order.                              *)
RECURSIVE validDescriptors(_, _)
validDescriptors(roster, photos) ==
    IF roster = <<>> THEN <<>>
    ELSE IF photos[Head(roster)] = "face"
         THEN <<Head(roster)>> \o validDescriptors(Tail(roster), photos)
         ELSE validDescriptors(Tail(roster), photos)

(* The fetch of a student's reference photo stops answering: the promise   *)
(* of that student's map callback stays pending.  Nothing in the callback  *)
(* or around Promise.all bounds the wait.                                  *)
PhotoFetchHangs(i, s) ==
    /\ i \in 1..Len(buildCalls)
    /\ s \in Range(buildCalls[i].students) \ buildCalls[i].hung
    /\ buildCalls' = [buildCalls EXCEPT ![i].hung = @ \cup {s}]
    /\ UNCHANGED <<regVars, matchVars, lifeVars, logVars, tableVars, stateVars, refVars, webcamCalls,
                   ticks, fetches, rosterFetches, absentCall, nSelect>>

(* Promise.all settles once every callback of students.map has settled. *)
PromiseAllSettled(call) == call.hung = {}

(* The students whose callback of students.map returned null: each is     *)
(* named in one console.warn (no face) or console.error (load failure)     *)
(* line; nothing else keeps them.                                          *)
excludedStudents(roster, photos) == {s \in Range(roster) : photos[s] # "face"}

(* Whether startFaceRecognition goes on to setInterval with this gallery. *)
GalleryUsable(gallery) == Len(gallery) # 0

(* What the map callback makes of each student's photo: detectSingleFace  *)
(* throws for every photo while the nets are not loaded, and the callback  *)
(* catches that like a failure to load the photo.                          *)
photoResults(photos) ==
    IF isModelLoaded THEN photos ELSE [s \in DOMAIN photos |-> "loaderror"]

(* startFaceRecognition after Promise.all: photos gives, for each student, *)
(* what fetchImage and detectSingleFace make of the reference photo.       *)
GalleryBuilt(i, photos) ==
    /\ i \in 1..Len(buildCalls)
    /\ PromiseAllSettled(buildCalls[i])
    /\ buildCalls' = Remove(buildCalls, i)
    /\ consoleLog' = consoleLog \cup
           excludedStudents(buildCalls[i].students, photoResults(photos))
    /\ LET call == buildCalls[i]
           gallery == validDescriptors(call.students, photoResults(photos))
       IN IF ~GalleryUsable(gallery)
          THEN /\ error' = "Could not create face descriptors"
               /\ isCapturing' = FALSE
               /\ UNCHANGED <<timers, nTimers, intervalRef>>
          ELSE /\ nTimers < MaxTimers
               /\ nTimers' = nTimers + 1
               /\ timers' = timers \cup
                      {[id |-> nTimers + 1, gallery |-> gallery,
                        students |-> call.students,
                        recognized |-> call.recognized,
                        course |-> call.course]}
               /\ intervalRef' = nTimers + 1
               /\ UNCHANGED <<error, isCapturing>>
    /\ UNCHANGED <<regVars, matchVars, lifeVars, tableVars, course, students, recognizedStudents,
                   attendanceRecords, isWebcamActive, isModelLoading,
                   isModelLoaded, isSubmitting, successMessage, srcObject,
                   liveStreams, nStreams, webcamCalls, ticks, fetches,
                   rosterFetches, absentCall, nSelect>>

(* stopFaceRecognition ("Pause Recognition", rendered while capturing). *)
stopFaceRecognition ==
    /\ mounted
    /\ isWebcamActive /\ isCapturing
    /\ IF intervalRef # 0
       THEN timers' = ClearInterval /\ intervalRef' = 0
       ELSE UNCHANGED <<timers, intervalRef>>
    /\ isCapturing' = FALSE
    /\ UNCHANGED <<regVars, matchVars, lifeVars, logVars, tableVars, course, students, recognizedStudents,
                   attendanceRecords, isWebcamActive, isModelLoading,
                   isModelLoaded, isSubmitting, error, successMessage,
                   srcObject, liveStreams, nStreams, nTimers, callVars>>

(***************************************************************************)
(* FaceMatcher.findBestMatch: the label of the nearest reference           *)
(* descriptor of the gallery (the first of equally near ones), or          *)
(* 'unknown' when it is not nearer than the threshold.                     *)
(***************************************************************************)
RECURSIVE matchDescriptor(_, _)
matchDescriptor(gallery, face) ==
    IF Len(gallery) = 1 THEN gallery[1]
    ELSE LET best == matchDescriptor(Tail(gallery), face)
         IN IF Distance(face, Head(gallery)) <= Distance(face, best)
            THEN Head(gallery) ELSE best
bestMatchLabel(label, distance, threshold) ==
    IF distance < threshold THEN label ELSE Unknown
findBestMatch(gallery, face) ==
    LET best == matchDescriptor(gallery, face)
    IN bestMatchLabel(best, Distance(face, best), distanceThreshold)

(* findBestMatch of a matcher with threshold matchThreshold whose only     *)
(* reference descriptor, of s1, is at matchDistance from the query.        *)
MatchOne ==
    /\ matchLabel = None
    /\ matchLabel' = bestMatchLabel("s1", matchDistance, matchThreshold)
    /\ UNCHANGED <<regVars, tableVars, stateVars, refVars, callVars, logVars,
                   lifeVars, matchThreshold, matchDistance>>

(* The test that guards the present insert: a match that the callback's    *)
(* own recognizedStudents (the array of the render that started the        *)
(* interval) does not include.                                             *)
NotYetRecognized(recognized, studentId) == studentId \notin recognized
ToRecord(tick, face) ==
    LET label == findBestMatch(tick.gallery, face)
    IN label # Unknown /\ NotYetRecognized(tick.recognized, label)

(* The detections of the for loop from the first one that is recorded. *)
RECURSIVE Pending(_, _)
Pending(tick, faces) ==
    IF faces = <<>> THEN <<>>
    ELSE IF ToRecord(tick, Head(faces)) THEN faces
    ELSE Pending(tick, Tail(faces))

(* Whether the interval callback goes past its first checks: the refs     *)
(* hold their elements while the page is mounted, and the video plays a    *)
(* frame exactly while a stream is attached to it.                         *)
FrameReady == mounted /\ srcObject # 0

(* A live timer fires: the callback runs up to await detectAllFaces. *)
TimerFire(t) ==
    /\ t \in timers
    /\ FrameReady
    /\ Len(ticks) < MaxTicks
    /\ ticks' = Append(ticks,
           [timer |-> t.id, gallery |-> t.gallery, recognized |-> t.recognized,
            course |-> t.course, stage |-> "detect", rest |-> <<>>,
            studentId |-> Unknown])
    /\ UNCHANGED <<regVars, matchVars, lifeVars, logVars, tableVars, stateVars, refVars, webcamCalls, buildCalls,
                   fetches, rosterFetches, absentCall, nSelect>>

(* The for loop over the detections, from `faces` on: up to the next       *)
(* await of an insert, or to the end of the callback.                      *)
ProcessDetections(i, faces) ==
    LET tick == ticks[i]
        todo == Pending(tick, faces)
    IN IF todo = <<>>
       THEN /\ ticks' = Remove(ticks, i)
            /\ UNCHANGED recognizedStudents
       ELSE LET studentId == findBestMatch(tick.gallery, Head(todo))
            IN /\ Len(recognizedStudents) < MaxRecognized
               /\ recognizedStudents' = Append(recognizedStudents, studentId)
               /\ ticks' = [ticks EXCEPT ![i] =
                      [tick EXCEPT !.stage = "insert", !.rest = Tail(todo),
                                   !.studentId = studentId]]

(* detectAllFaces resolves with the faces of the frame. *)
DetectDone(i, faces) ==
    /\ i \in 1..Len(ticks)
    /\ ticks[i].stage = "detect"
    /\ ProcessDetections(i, faces)
    /\ UNCHANGED <<regVars, matchVars, lifeVars, logVars, tableVars, course, students, attendanceRecords,
                   isWebcamActive, isModelLoading, isModelLoaded, isCapturing,
                   isSubmitting, error, successMessage, refVars, webcamCalls,
                   buildCalls, fetches, rosterFetches, absentCall, nSelect>>

(* A callback that stopped the loop when detection failed. *)
DetectFailStopsLoop(i) ==
    /\ i \in 1..Len(ticks)
    /\ ticks[i].stage = "detect"
    /\ ticks' = Remove(ticks, i)
    /\ timers' = ClearInterval
    /\ intervalRef' = 0
    /\ UNCHANGED <<regVars, matchVars, lifeVars, logVars, tableVars, stateVars, srcObject,
                   liveStreams, nStreams, nTimers, webcamCalls, buildCalls,
                   fetches, rosterFetches, absentCall, nSelect>>

(* detectAllFaces rejects: the callback ends there. *)
DetectFail(i) ==
    /\ i \in 1..Len(ticks)
    /\ ticks[i].stage = "detect"
    /\ ticks' = Remove(ticks, i)
    /\ UNCHANGED <<regVars, matchVars, lifeVars, logVars, tableVars, stateVars, refVars, webcamCalls, buildCalls,
                   fetches, rosterFetches, absentCall, nSelect>>

(* A callback that refreshes only after an insert that stored its row. *)
InsertDoneRefreshOnSuccess(i, outcome) ==
    /\ i \in 1..Len(ticks)
    /\ ticks[i].stage = "insert"
    /\ IF outcome = "ok"
       THEN /\ Len(attendance) < MaxRecords
            /\ attendance' = Append(attendance,
                   PresentRecord(ticks[i].studentId, ticks[i].course))
            /\ Len(fetches) < MaxFetches
            /\ fetches' = fetchAttendanceRecords(ticks[i].course)
       ELSE UNCHANGED <<attendance, fetches>>
    /\ ProcessDetections(i, ticks[i].rest)
    /\ UNCHANGED <<regVars, matchVars, lifeVars, logVars, course, students, attendanceRecords, isWebcamActive,
                   isModelLoading, isModelLoaded, isCapturing, isSubmitting,
                   error, successMessage, refVars, webcamCalls, buildCalls,
                   rosterFetches, absentCall, nSelect>>

(* The present insert settles: "ok" stores the row, "error" resolves with  *)
(* an error the callback does not look at, "throw" rejects.  Unless it     *)
(* rejected, fetchAttendanceRecords(course) is called, and the loop goes   *)
(* on with the remaining detections.                                       *)
InsertDone(i, outcome) ==
    /\ i \in 1..Len(ticks)
    /\ ticks[i].stage = "insert"
    /\ IF outcome = "ok"
       THEN /\ Len(attendance) < MaxRecords
            /\ attendance' = Append(attendance,
                   PresentRecord(ticks[i].studentId, ticks[i].course))
       ELSE UNCHANGED attendance
    /\ IF outcome # "throw"
       THEN /\ Len(fetches) < MaxFetches
            /\ fetches' = fetchAttendanceRecords(ticks[i].course)
       ELSE UNCHANGED fetches
    /\ ProcessDetections(i, ticks[i].rest)
    /\ UNCHANGED <<regVars, matchVars, lifeVars, logVars, course, students, attendanceRecords, isWebcamActive,
                   isModelLoading, isModelLoaded, isCapturing, isSubmitting,
                   error, successMessage, refVars, webcamCalls, buildCalls,
                   rosterFetches, absentCall, nSelect>>

(* A close that takes the whole roster for absent. *)
absentStudentIdsWholeRoster(roster, recognized) == roster

(* The ids markAbsentStudents takes for absent. *)
RECURSIVE absentStudentIds(_, _)
absentStudentIds(roster, recognized) ==
    IF roster = <<>> THEN <<>>
    ELSE IF ~Includes(recognized, Head(roster))
         THEN <<Head(roster)>> \o absentStudentIds(Tail(roster), recognized)
         ELSE absentStudentIds(Tail(roster), recognized)

(* markAbsentStudents up to its await ("Complete Attendance", rendered     *)
(* while capturing, disabled while submitting).                            *)
markAbsentStudents ==
    /\ mounted
    /\ isWebcamActive /\ isCapturing /\ ~isSubmitting
    /\ error' = None
    /\ LET ids == absentStudentIds(students, recognizedStudents)
       IN IF ids = <<>>
          THEN /\ successMessage' = "All students are present!"
               /\ isSubmitting' = FALSE
               /\ UNCHANGED absentCall
          ELSE /\ successMessage' = None
               /\ isSubmitting' = TRUE
               /\ absentCall' = [ids |-> ids, course |-> course]
    /\ UNCHANGED <<regVars, matchVars, lifeVars, logVars, tableVars, course, students, recognizedStudents,
                   attendanceRecords, isWebcamActive, isModelLoading,
                   isModelLoaded, isCapturing, refVars, webcamCalls,
                   buildCalls, ticks, fetches, rosterFetches, nSelect>>

(* markAbsentStudents after the insert of the absent rows settles. *)
AbsentInsertDone(ok) ==
    /\ absentCall # NoCall
    /\ absentCall' = NoCall
    /\ isSubmitting' = FALSE
    /\ IF ok
       THEN /\ Len(attendance) + Len(absentCall.ids) <= MaxRecords
            /\ Len(fetches) < MaxFetches
            /\ attendance' = attendance \o
                   AbsentRecords(absentCall.ids, absentCall.course)
            /\ fetches' = fetchAttendanceRecords(absentCall.course)
            /\ successMessage' = "Attendance has been completed successfully!"
            /\ UNCHANGED error
       ELSE /\ error' = "Failed to mark absent students"
            /\ UNCHANGED <<attendance, fetches, successMessage>>
    /\ UNCHANGED <<regVars, matchVars, lifeVars, logVars, course, students, recognizedStudents, attendanceRecords,
                   isWebcamActive, isModelLoading, isModelLoaded, isCapturing,
                   refVars, webcamCalls, buildCalls, ticks, rosterFetches,
                   nSelect>>


(***************************************************************************)
(* The student registration page.                                          *)
(***************************************************************************)

(* The operator fills in or clears a field of the form (handleFileChange   *)
(* and clearPhoto for the photo).                                          *)
EditForm(f) ==
    /\ f \in FormFields
    /\ form' = IF f \in form THEN form \ {f} ELSE form \cup {f}
    /\ UNCHANGED <<captureVars, camVars, regModelLoading, modelsCall, isSaving,
                   regError, regSuccess, submitCall, clock, storage,
                   removeCalls, studentRows>>

(* loadModels after its await: isModelLoading is reset only when the nets  *)
(* loaded.                                                                 *)
loadModels(ok) ==
    /\ modelsCall
    /\ modelsCall' = FALSE
    /\ IF ok
       THEN regModelLoading' = FALSE /\ UNCHANGED regError
       ELSE regError' = "Failed to load facial recognition models"
            /\ UNCHANGED regModelLoading
    /\ UNCHANGED <<captureVars, camVars, form, isSaving, regSuccess, submitCall, clock,
                   storage, removeCalls, studentRows>>

(* The submit button is disabled while saving and while the models load. *)
SubmitEnabled == ~isSaving /\ ~regModelLoading

(* A handleSubmit that does not look at isModelLoading. *)
handleSubmitUnguarded ==
    /\ submitCall = NoSubmit
    /\ regSuccess' = None
    /\ IF form # FormFields
       THEN /\ regError' = "All fields are required, including student photo"
            /\ UNCHANGED <<isSaving, submitCall, clock>>
       ELSE /\ clock < MaxSubmits
            /\ regError' = None
            /\ isSaving' = TRUE
            /\ clock' = clock + 1
            /\ submitCall' = [pc |-> "upload", filePath |-> clock + 1]
    /\ UNCHANGED <<captureVars, camVars, form, regModelLoading, modelsCall, storage,
                   removeCalls, studentRows>>

(* handleSubmit up to its first await. *)
handleSubmit ==
    /\ submitCall = NoSubmit
    /\ regSuccess' = None
    /\ IF form # FormFields
       THEN /\ regError' = "All fields are required, including student photo"
            /\ UNCHANGED <<isSaving, submitCall, clock>>
       ELSE IF regModelLoading
       THEN /\ regError' = "Please wait for facial recognition models to load"
            /\ UNCHANGED <<isSaving, submitCall, clock>>
       ELSE /\ clock < MaxSubmits
            /\ regError' = None
            /\ isSaving' = TRUE
            /\ clock' = clock + 1
            /\ submitCall' = [pc |-> "upload", filePath |-> clock + 1]
    /\ UNCHANGED <<captureVars, camVars, form, regModelLoading, modelsCall, storage,
                   removeCalls, studentRows>>

(***************************************************************************)
(* The block in which handleSubmit declares a name, and whether a block    *)
(* can read it.  filePath is a const of the try block, so the catch block  *)
(* that names it is outside its scope: evaluating `if (filePath)` there    *)
(* throws a ReferenceError, and the statements after it do not run.        *)
(***************************************************************************)
DeclaredIn(name) == IF name = "filePath" THEN "try" ELSE "function"
InScope(name, block) == DeclaredIn(name) \in {block, "function"}

(* A handleSubmit without its finally block: the exception thrown inside   *)
(* the catch block ends the call with the flag still set.                  *)
catchRegistrationNoFinally ==
    /\ regError' = "Failed to register student"
    /\ IF InScope("filePath", "catch")
       THEN /\ removeCalls' = removeCalls \cup {submitCall.filePath}
            /\ storage' = storage \ {submitCall.filePath}
            /\ isSaving' = FALSE
       ELSE UNCHANGED <<removeCalls, storage, isSaving>>
    /\ submitCall' = NoSubmit

(* The catch and finally blocks of handleSubmit. *)
catchRegistration ==
    /\ regError' = "Failed to register student"
    /\ IF InScope("filePath", "catch")
       THEN /\ removeCalls' = removeCalls \cup {submitCall.filePath}
            /\ storage' = storage \ {submitCall.filePath}
       ELSE UNCHANGED <<removeCalls, storage>>
    /\ isSaving' = FALSE
    /\ submitCall' = NoSubmit

(* storage.upload settles. *)
UploadDone(ok) ==
    /\ submitCall.pc = "upload"
    /\ IF ok
       THEN /\ storage' = storage \cup {submitCall.filePath}
            /\ submitCall' = [submitCall EXCEPT !.pc = "descriptor"]
            /\ UNCHANGED <<regError, isSaving, removeCalls>>
       ELSE catchRegistration
    /\ UNCHANGED <<captureVars, camVars, form, regModelLoading, modelsCall, regSuccess,
                   clock, studentRows>>

(* computeFaceDescriptor settles: it returns the descriptor of the face,   *)
(* and throws when the image shows none or does not load.                  *)
computeFaceDescriptor(outcome) ==
    /\ submitCall.pc = "descriptor"
    /\ IF outcome = "face"
       THEN /\ submitCall' = [submitCall EXCEPT !.pc = "insert"]
            /\ UNCHANGED <<regError, isSaving, removeCalls, storage>>
       ELSE catchRegistration
    /\ UNCHANGED <<captureVars, camVars, form, regModelLoading, modelsCall, regSuccess,
                   clock, studentRows>>

(* The insert into students settles. *)
StudentInsertDone(ok) ==
    /\ submitCall.pc = "insert"
    /\ IF ok
       THEN /\ studentRows' = studentRows \cup {submitCall.filePath}
            /\ regSuccess' = "Student registered successfully!"
            /\ form' = {}                     \* resetForm
            /\ regError' = None
            /\ isSaving' = FALSE
            /\ submitCall' = NoSubmit
            /\ UNCHANGED <<removeCalls, storage>>
       ELSE /\ catchRegistration
            /\ UNCHANGED <<studentRows, regSuccess, form>>
    /\ UNCHANGED <<captureVars, camVars, regModelLoading, modelsCall, clock>>

(***************************************************************************)
(* The camera of the registration page.  The video element is rendered     *)
(* only while isUsingWebcam is true, so videoRef.current is null while     *)
(* the dialog is closed, and a video element mounted by a later opening    *)
(* starts with srcObject null.                                             *)
(***************************************************************************)
regFields == <<regModelLoading, modelsCall, isSaving, regError, regSuccess,
               submitCall, clock, storage, removeCalls, studentRows>>

(* startWebcam of the registration page ("Camera", rendered while the      *)
(* dialog is closed), up to its await.                                     *)
enrollStartWebcam ==
    /\ ~isUsingWebcam
    /\ enrollWebcamCalls < MaxWebcamCalls
    /\ isUsingWebcam' = TRUE
    /\ enrollWebcamCalls' = enrollWebcamCalls + 1
    /\ UNCHANGED <<captureVars, form, regFields, enrollSrcObject,
                   enrollLiveStreams, enrollStreams>>

(* startWebcam of the registration page after getUserMedia settles. *)
enrollGetUserMedia(ok) ==
    /\ enrollWebcamCalls > 0
    /\ enrollWebcamCalls' = enrollWebcamCalls - 1
    /\ IF ok
       THEN /\ enrollStreams < MaxStreams
            /\ enrollStreams' = enrollStreams + 1
            /\ enrollLiveStreams' = enrollLiveStreams \cup {enrollStreams + 1}
            /\ IF isUsingWebcam                    \* if (videoRef.current)
               THEN enrollSrcObject' = enrollStreams + 1
               ELSE UNCHANGED enrollSrcObject
            /\ UNCHANGED <<regError, isUsingWebcam>>
       ELSE /\ regError' = "Could not access webcam. Please check your permissions."
            /\ isUsingWebcam' = FALSE
            /\ enrollSrcObject' = 0                \* the video element unmounts
            /\ UNCHANGED <<enrollStreams, enrollLiveStreams>>
    /\ UNCHANGED <<captureVars, form, regModelLoading, modelsCall, isSaving,
                   regSuccess, submitCall, clock, storage, removeCalls,
                   studentRows>>

(* The body of stopWebcam of the registration page: what it leaves of the  *)
(* live streams.                                                           *)
enrollStopTracks ==
    IF enrollSrcObject # 0 THEN enrollLiveStreams \ {enrollSrcObject}
    ELSE enrollLiveStreams

(* stopWebcam of the registration page ("Cancel" and the X of the dialog). *)
enrollStopWebcam ==
    /\ isUsingWebcam
    /\ enrollLiveStreams' = enrollStopTracks
    /\ enrollSrcObject' = 0
    /\ isUsingWebcam' = FALSE
    /\ UNCHANGED <<captureVars, form, regFields, enrollStreams,
                   enrollWebcamCalls>>

(* capturePhoto ("Capture"): the frame drawn on the canvas becomes the     *)
(* photo when the video shows a stream (an empty canvas gives no blob),    *)
(* then stopWebcam.                                                        *)
capturePhoto ==
    /\ isUsingWebcam
    /\ form' = IF enrollSrcObject # 0 THEN form \cup {"photo"} ELSE form
    /\ enrollLiveStreams' = enrollStopTracks
    /\ enrollSrcObject' = 0
    /\ isUsingWebcam' = FALSE
    /\ UNCHANGED <<captureVars, regFields, enrollStreams, enrollWebcamCalls>>

(***************************************************************************)
(* Scenarios.  The actions above take every outcome the code handles; a    *)
(* specification below fixes what the environment of one scenario does.    *)
(***************************************************************************)
OneSelection == nSelect < 1            \* the course is selected once
FirstSession == nStreams < 1           \* the camera is started once
FirstRun == nTimers < 1                \* one setInterval is started
NoTickInFlight == ticks = <<>>         \* a frame is processed within the period
NoRefreshInFlight == fetches = <<>>    \* a refresh is answered before the next insert settles
AllFaces == [s \in Students |-> "face"] \* every reference photo shows a face

(***************************************************************************)
(* Spec: one operator takes the attendance of the course in one camera     *)
(* session and one recognition run.  Every request succeeds; reference     *)
(* photos may show no face or fail to load; frames are processed one at a  *)
(* time.                                                                   *)
(***************************************************************************)
Next ==
    \/ \E c \in Courses \cup {NoCourse} : OneSelection /\ SelectCourse(c)
    \/ \E i \in 1..MaxFetches : RosterFetchDone(i, TRUE)
    \/ \E i \in 1..MaxFetches : FetchServe(i) \/ FetchDeliver(i)
    \/ startWebcam
    \/ \E i \in 1..MaxWebcamCalls : loadFaceRecognitionModels(i, TRUE)
    \/ \E i \in 1..MaxWebcamCalls : FirstSession /\ getUserMedia(i, TRUE)
    \/ stopWebcam
    \/ startFaceRecognition
    \/ \E i \in 1..MaxBuilds, photos \in [Students -> PhotoOutcomes] :
          FirstRun /\ GalleryBuilt(i, photos)
    \/ stopFaceRecognition
    \/ \E t \in timers : NoTickInFlight /\ TimerFire(t)
    \/ \E i \in 1..MaxTicks, faces \in Frames : DetectDone(i, faces)
    \/ \E i \in 1..MaxTicks : NoRefreshInFlight /\ InsertDone(i, "ok")
    \/ markAbsentStudents
    \/ NoRefreshInFlight /\ AbsentInsertDone(TRUE)

Spec == Init /\ [][Next]_vars

(***************************************************************************)
(* SpecOverlap: the recognition loop of one run when detection may take    *)
(* longer than the sampling period, so that the timer fires while earlier  *)
(* callbacks are still awaiting.                                           *)
(***************************************************************************)
NextOverlap ==
    \/ \E c \in Courses \cup {NoCourse} : OneSelection /\ SelectCourse(c)
    \/ \E i \in 1..MaxFetches : RosterFetchDone(i, TRUE)
    \/ \E i \in 1..MaxFetches : FetchServe(i) \/ FetchDeliver(i)
    \/ startWebcam
    \/ \E i \in 1..MaxWebcamCalls : loadFaceRecognitionModels(i, TRUE)
    \/ \E i \in 1..MaxWebcamCalls : FirstSession /\ getUserMedia(i, TRUE)
    \/ stopWebcam
    \/ startFaceRecognition
    \/ \E i \in 1..MaxBuilds, photos \in [Students -> PhotoOutcomes] :
          FirstRun /\ GalleryBuilt(i, photos)
    \/ stopFaceRecognition
    \/ \E t \in timers : TimerFire(t)
    \/ \E i \in 1..MaxTicks, faces \in Frames : DetectDone(i, faces)
    \/ \E i \in 1..MaxTicks : DetectFail(i)
    \/ \E i \in 1..MaxTicks : NoRefreshInFlight /\ InsertDone(i, "ok")

SpecOverlap == Init /\ [][NextOverlap]_vars

(***************************************************************************)
(* SpecRegistration: the registration page, every outcome of every         *)
(* request.                                                                *)
(***************************************************************************)
NextRegistration ==
    \/ \E f \in FormFields : EditForm(f)
    \/ \E ok \in BOOLEAN : loadModels(ok)
    \/ SubmitEnabled /\ handleSubmit
    \/ \E ok \in BOOLEAN : UploadDone(ok)
    \/ \E outcome \in PhotoOutcomes : computeFaceDescriptor(outcome)
    \/ \E ok \in BOOLEAN : StudentInsertDone(ok)

SpecRegistration == Init /\ [][NextRegistration]_vars

(***************************************************************************)
(* SpecEarlySubmit: the registration page when the form's submit event     *)
(* reaches handleSubmit at any moment, also while the models load (the     *)
(* handler is called whatever the submit button shows), every outcome of   *)
(* every request.                                                          *)
(***************************************************************************)
NextEarlySubmit ==
    \/ \E f \in FormFields : EditForm(f)
    \/ \E ok \in BOOLEAN : loadModels(ok)
    \/ handleSubmit
    \/ \E ok \in BOOLEAN : UploadDone(ok)
    \/ \E outcome \in PhotoOutcomes : computeFaceDescriptor(outcome)
    \/ \E ok \in BOOLEAN : StudentInsertDone(ok)

SpecEarlySubmit == Init /\ [][NextEarlySubmit]_vars

(***************************************************************************)
(* SpecEnrollCamera: the photo of the registration form, chosen from a     *)
(* file or taken with the camera; opening the camera may fail.             *)
(***************************************************************************)
NextEnrollCamera ==
    \/ \E f \in FormFields : EditForm(f)
    \/ enrollStartWebcam
    \/ \E ok \in BOOLEAN : enrollGetUserMedia(ok)
    \/ enrollStopWebcam
    \/ capturePhoto

SpecEnrollCamera == Init /\ [][NextEnrollCamera]_vars

(***************************************************************************)
(* SpecBusyFlags: the two busy flags.  The application shows one page at   *)
(* a time: the operator either registers students (every outcome of every  *)
(* request) or takes the attendance of the course in one session and one   *)
(* run, where the insert of the absent rows may fail.  Every request that  *)
(* was sent is answered: the steps that resume an awaiting call are taken  *)
(* when they stay possible.                                                *)
(***************************************************************************)
OnRegistrationPage == nSelect = 0
OnCapturePage == InitRegistration
NextBusyFlags ==
    \/ \E f \in FormFields : OnRegistrationPage /\ EditForm(f)
    \/ \E ok \in BOOLEAN : OnRegistrationPage /\ loadModels(ok)
    \/ OnRegistrationPage /\ SubmitEnabled /\ handleSubmit
    \/ \E ok \in BOOLEAN : UploadDone(ok)
    \/ \E outcome \in PhotoOutcomes : computeFaceDescriptor(outcome)
    \/ \E ok \in BOOLEAN : StudentInsertDone(ok)
    \/ \E c \in Courses : OnCapturePage /\ OneSelection /\ SelectCourse(c)
    \/ \E i \in 1..MaxFetches : RosterFetchDone(i, TRUE)
    \/ \E i \in 1..MaxFetches : FetchServe(i) \/ FetchDeliver(i)
    \/ startWebcam
    \/ \E i \in 1..MaxWebcamCalls : loadFaceRecognitionModels(i, TRUE)
    \/ \E i \in 1..MaxWebcamCalls : FirstSession /\ getUserMedia(i, TRUE)
    \/ startFaceRecognition
    \/ \E i \in 1..MaxBuilds : FirstRun /\ GalleryBuilt(i, AllFaces)
    \/ \E t \in timers : NoTickInFlight /\ TimerFire(t)
    \/ \E i \in 1..MaxTicks, faces \in Frames : DetectDone(i, faces)
    \/ \E i \in 1..MaxTicks : NoRefreshInFlight /\ InsertDone(i, "ok")
    \/ markAbsentStudents
    \/ \E ok \in BOOLEAN : AbsentInsertDone(ok)

RequestsAnswered ==
    /\ WF_vars(\E ok \in BOOLEAN : UploadDone(ok))
    /\ WF_vars(\E outcome \in PhotoOutcomes : computeFaceDescriptor(outcome))
    /\ WF_vars(\E ok \in BOOLEAN : StudentInsertDone(ok))
    /\ WF_vars(\E ok \in BOOLEAN : AbsentInsertDone(ok))

SpecBusyFlags == Init /\ [][NextBusyFlags]_vars /\ RequestsAnswered

(***************************************************************************)
(* SpecSlowPhotos: one session and one run, as Spec without the close,     *)
(* where the storage may stop answering the fetch of a reference photo.    *)
(***************************************************************************)
NextSlowPhotos ==
    \/ \E c \in Courses \cup {NoCourse} : OneSelection /\ SelectCourse(c)
    \/ \E i \in 1..MaxFetches : RosterFetchDone(i, TRUE)
    \/ \E i \in 1..MaxFetches : FetchServe(i) \/ FetchDeliver(i)
    \/ startWebcam
    \/ \E i \in 1..MaxWebcamCalls : loadFaceRecognitionModels(i, TRUE)
    \/ \E i \in 1..MaxWebcamCalls : FirstSession /\ getUserMedia(i, TRUE)
    \/ stopWebcam
    \/ startFaceRecognition
    \/ \E i \in 1..MaxBuilds, s \in Students : PhotoFetchHangs(i, s)
    \/ \E i \in 1..MaxBuilds, photos \in [Students -> PhotoOutcomes] :
          FirstRun /\ GalleryBuilt(i, photos)
    \/ stopFaceRecognition
    \/ \E t \in timers : NoTickInFlight /\ TimerFire(t)
    \/ \E i \in 1..MaxTicks, faces \in Frames : DetectDone(i, faces)
    \/ \E i \in 1..MaxTicks : NoRefreshInFlight /\ InsertDone(i, "ok")

SpecSlowPhotos == Init /\ [][NextSlowPhotos]_vars

(***************************************************************************)
(* SpecLifecycle: starting and leaving sessions.  Loading the models and   *)
(* opening the camera may fail, the camera may be started again after a    *)
(* stop, and the operator may navigate away at any moment.  No frame is    *)
(* sampled.                                                                *)
(***************************************************************************)
NextLifecycle ==
    \/ \E c \in Courses \cup {NoCourse} : OneSelection /\ SelectCourse(c)
    \/ \E i \in 1..MaxFetches : RosterFetchDone(i, TRUE)
    \/ \E i \in 1..MaxFetches : FetchServe(i) \/ FetchDeliver(i)
    \/ startWebcam
    \/ \E i \in 1..MaxWebcamCalls, ok \in BOOLEAN : loadFaceRecognitionModels(i, ok)
    \/ \E i \in 1..MaxWebcamCalls, ok \in BOOLEAN : getUserMedia(i, ok)
    \/ stopWebcam
    \/ \E detached \in BOOLEAN : Unmount(detached)
    \/ startFaceRecognition
    \/ \E i \in 1..MaxBuilds, photos \in [Students -> PhotoOutcomes] :
          GalleryBuilt(i, photos)
    \/ stopFaceRecognition

SpecLifecycle == Init /\ [][NextLifecycle]_vars

(***************************************************************************)
(* SpecCloseFails: as Spec with every reference photo showing a face,      *)
(* where the insert of the absent rows may fail.                           *)
(***************************************************************************)
NextCloseFails ==
    \/ \E c \in Courses \cup {NoCourse} : OneSelection /\ SelectCourse(c)
    \/ \E i \in 1..MaxFetches : RosterFetchDone(i, TRUE)
    \/ \E i \in 1..MaxFetches : FetchServe(i) \/ FetchDeliver(i)
    \/ startWebcam
    \/ \E i \in 1..MaxWebcamCalls : loadFaceRecognitionModels(i, TRUE)
    \/ \E i \in 1..MaxWebcamCalls : FirstSession /\ getUserMedia(i, TRUE)
    \/ stopWebcam
    \/ startFaceRecognition
    \/ \E i \in 1..MaxBuilds : FirstRun /\ GalleryBuilt(i, AllFaces)
    \/ stopFaceRecognition
    \/ \E t \in timers : NoTickInFlight /\ TimerFire(t)
    \/ \E i \in 1..MaxTicks, faces \in Frames : DetectDone(i, faces)
    \/ \E i \in 1..MaxTicks : NoRefreshInFlight /\ InsertDone(i, "ok")
    \/ markAbsentStudents
    \/ \E ok \in BOOLEAN : NoRefreshInFlight /\ AbsentInsertDone(ok)

SpecCloseFails == Init /\ [][NextCloseFails]_vars

(***************************************************************************)
(* SpecFrameFaults: the recognition loop of one session and one run,       *)
(* every reference photo showing a face and frames processed one at a      *)
(* time, where face detection on a frame may throw and the insert of a     *)
(* present row may fail.                                                   *)
(***************************************************************************)
InsertOutcomes == {"ok", "error", "throw"}
NextFrameFaults ==
    \/ \E c \in Courses \cup {NoCourse} : OneSelection /\ SelectCourse(c)
    \/ \E i \in 1..MaxFetches : RosterFetchDone(i, TRUE)
    \/ \E i \in 1..MaxFetches : FetchServe(i) \/ FetchDeliver(i)
    \/ startWebcam
    \/ \E i \in 1..MaxWebcamCalls : loadFaceRecognitionModels(i, TRUE)
    \/ \E i \in 1..MaxWebcamCalls : FirstSession /\ getUserMedia(i, TRUE)
    \/ stopWebcam
    \/ startFaceRecognition
    \/ \E i \in 1..MaxBuilds : FirstRun /\ GalleryBuilt(i, AllFaces)
    \/ stopFaceRecognition
    \/ \E t \in timers : NoTickInFlight /\ TimerFire(t)
    \/ \E i \in 1..MaxTicks, faces \in Frames : DetectDone(i, faces)
    \/ \E i \in 1..MaxTicks : DetectFail(i)
    \/ \E i \in 1..MaxTicks, outcome \in InsertOutcomes :
          NoRefreshInFlight /\ InsertDone(i, outcome)

SpecFrameFaults == Init /\ [][NextFrameFaults]_vars

(***************************************************************************)
(* SpecInsertErrors: as Spec with every reference photo showing a face,    *)
(* where the insert of a present row may return an error.                  *)
(***************************************************************************)
ReturnedOutcomes == {"ok", "error"}
NextInsertErrors ==
    \/ \E c \in Courses \cup {NoCourse} : OneSelection /\ SelectCourse(c)
    \/ \E i \in 1..MaxFetches : RosterFetchDone(i, TRUE)
    \/ \E i \in 1..MaxFetches : FetchServe(i) \/ FetchDeliver(i)
    \/ startWebcam
    \/ \E i \in 1..MaxWebcamCalls : loadFaceRecognitionModels(i, TRUE)
    \/ \E i \in 1..MaxWebcamCalls : FirstSession /\ getUserMedia(i, TRUE)
    \/ stopWebcam
    \/ startFaceRecognition
    \/ \E i \in 1..MaxBuilds : FirstRun /\ GalleryBuilt(i, AllFaces)
    \/ stopFaceRecognition
    \/ \E t \in timers : NoTickInFlight /\ TimerFire(t)
    \/ \E i \in 1..MaxTicks, faces \in Frames : DetectDone(i, faces)
    \/ \E i \in 1..MaxTicks, outcome \in ReturnedOutcomes :
          NoRefreshInFlight /\ InsertDone(i, outcome)
    \/ markAbsentStudents
    \/ NoRefreshInFlight /\ AbsentInsertDone(TRUE)

SpecInsertErrors == Init /\ [][NextInsertErrors]_vars

(***************************************************************************)
(* SpecCourseChange: one camera session and one recognition run, every     *)
(* reference photo showing a face, where the selector offers two courses   *)
(* and the operator may change the selection at any moment.                *)
(***************************************************************************)
EveryFace == [s \in Students \cup OtherStudents |-> "face"]
NextCourseChange ==
    \/ \E c \in Courses \cup OtherCourses : SelectCourse(c)
    \/ \E i \in 1..MaxFetches : RosterFetchDone(i, TRUE)
    \/ \E i \in 1..MaxFetches : FetchServe(i) \/ FetchDeliver(i)
    \/ startWebcam
    \/ \E i \in 1..MaxWebcamCalls : loadFaceRecognitionModels(i, TRUE)
    \/ \E i \in 1..MaxWebcamCalls : FirstSession /\ getUserMedia(i, TRUE)
    \/ startFaceRecognition
    \/ \E i \in 1..MaxBuilds : FirstRun /\ GalleryBuilt(i, EveryFace)
    \/ \E t \in timers : NoTickInFlight /\ TimerFire(t)
    \/ \E i \in 1..MaxTicks, faces \in Frames : DetectDone(i, faces)
    \/ \E i \in 1..MaxTicks : NoRefreshInFlight /\ InsertDone(i, "ok")
    \/ markAbsentStudents
    \/ NoRefreshInFlight /\ AbsentInsertDone(TRUE)

SpecCourseChange == Init /\ [][NextCourseChange]_vars

(***************************************************************************)
(* SpecResume: one camera session in which recognition may be paused and   *)
(* started again; the reference photos are fetched anew by every start     *)
(* and may then show no face or fail to load.                              *)
(***************************************************************************)
NextResume ==
    \/ \E c \in Courses \cup {NoCourse} : OneSelection /\ SelectCourse(c)
    \/ \E i \in 1..MaxFetches : RosterFetchDone(i, TRUE)
    \/ \E i \in 1..MaxFetches : FetchServe(i) \/ FetchDeliver(i)
    \/ startWebcam
    \/ \E i \in 1..MaxWebcamCalls : loadFaceRecognitionModels(i, TRUE)
    \/ \E i \in 1..MaxWebcamCalls : FirstSession /\ getUserMedia(i, TRUE)
    \/ stopWebcam
    \/ startFaceRecognition
    \/ \E i \in 1..MaxBuilds, photos \in [Students -> PhotoOutcomes] :
          GalleryBuilt(i, photos)
    \/ stopFaceRecognition
    \/ \E t \in timers : NoTickInFlight /\ TimerFire(t)
    \/ \E i \in 1..MaxTicks, faces \in Frames : DetectDone(i, faces)
    \/ \E i \in 1..MaxTicks : NoRefreshInFlight /\ InsertDone(i, "ok")

SpecResume == Init /\ [][NextResume]_vars

(***************************************************************************)
(* SpecSessions: the camera may be stopped and started again, and          *)
(* recognition with it; every reference photo shows a face.                *)
(***************************************************************************)
NextSessions ==
    \/ \E c \in Courses \cup {NoCourse} : OneSelection /\ SelectCourse(c)
    \/ \E i \in 1..MaxFetches : RosterFetchDone(i, TRUE)
    \/ \E i \in 1..MaxFetches : FetchServe(i) \/ FetchDeliver(i)
    \/ startWebcam
    \/ \E i \in 1..MaxWebcamCalls : loadFaceRecognitionModels(i, TRUE)
    \/ \E i \in 1..MaxWebcamCalls : getUserMedia(i, TRUE)
    \/ stopWebcam
    \/ startFaceRecognition
    \/ \E i \in 1..MaxBuilds : GalleryBuilt(i, AllFaces)
    \/ stopFaceRecognition
    \/ \E t \in timers : NoTickInFlight /\ TimerFire(t)
    \/ \E i \in 1..MaxTicks, faces \in Frames : DetectDone(i, faces)
    \/ \E i \in 1..MaxTicks : NoRefreshInFlight /\ InsertDone(i, "ok")

SpecSessions == Init /\ [][NextSessions]_vars

(***************************************************************************)
(* SpecMatcher: findBestMatch on a one-entry gallery, for every threshold  *)
(* and every distance up to MaxTenths tenths.                              *)
(***************************************************************************)
InitAnyMatcher ==
    /\ InitCapture /\ InitRegistration
    /\ matchThreshold \in 0..MaxTenths
    /\ matchDistance \in 0..MaxTenths
    /\ matchLabel = None

SpecMatcher == InitAnyMatcher /\ [][MatchOne]_vars

(***************************************************************************)
(* Properties.                                                             *)
(***************************************************************************)
Rows(s, c, status) ==
    {i \in 1..Len(attendance) :
        attendance[i] = [student_id |-> s, course |-> c, status |-> status]}
PresentCount(s, c) == Cardinality(Rows(s, c, "present"))
AbsentCount(s, c) == Cardinality(Rows(s, c, "absent"))
(* Present inserts of student s that a callback is awaiting. *)
InsertsInFlight(s) ==
    {i \in 1..Len(ticks) : ticks[i].stage = "insert" /\ ticks[i].studentId = s}
(* This step is markAbsentStudents computing its absentees and sending     *)
(* the insert of their rows.                                               *)
SendsAbsentRows == absentCall = NoCall /\ absentCall' # NoCall
(* A markAbsentStudents call has completed with success for course c. *)
ClosedFor(c) ==
    \/ \E i \in 1..Len(attendance) :
          attendance[i].course = c /\ attendance[i].status = "absent"
    \/ course = c /\ successMessage = "All students are present!"

(* C1: in every reachable state the attendance table holds at most one     *)
(* 'present' row for each (student, course) pair of the day.               *)
C1_AtMostOnePresent ==
    \A s \in Students, c \in Courses : PresentCount(s, c) <= 1

(* C2: within the one run of the recognition loop (one setInterval, the    *)
(* student not recognized when it started) at most one present insert is   *)
(* issued for a student, however many ticks match the face.                *)
C2_OneEventPerRun ==
    nTimers <= 1 =>
        \A s \in Students, c \in Courses :
            PresentCount(s, c) + Cardinality(InsertsInFlight(s)) <= 1

(* C3: once markAbsentStudents has completed with success for a course and *)
(* no request is in flight, every student of its roster has exactly one    *)
(* row of today, present or absent, in this and in every later state.      *)
NothingInFlight ==
    absentCall = NoCall /\ ticks = <<>> /\ fetches = <<>> /\ buildCalls = <<>>
C3_CompleteAfterClose ==
    \A c \in Courses :
        ClosedFor(c) /\ NothingInFlight =>
            \A s \in Range(Roster(c)) :
                PresentCount(s, c) + AbsentCount(s, c) = 1

(* C4: markAbsentStudents sends an 'absent' row only for students with no  *)
(* 'present' row in the table for that course today.                       *)
C4_AbsentOnlyWithoutPresent ==
    [][SendsAbsentRows =>
          \A s \in Range(absentCall'.ids) :
              PresentCount(s, absentCall'.course) = 0]_vars

(* C5: when a close has completed and every student of the roster has a    *)
(* row, running markAbsentStudents again sends no insert.                  *)
C5_SecondCloseIsNoOp ==
    [][(/\ ClosedFor(course)
        /\ \A s \in Range(students) :
              PresentCount(s, course) + AbsentCount(s, course) >= 1)
       => ~SendsAbsentRows]_vars

(* C6: at most one recognition tick is in flight at any time: a timer that *)
(* fires while the previous callback is still awaiting starts nothing.     *)
C6_NoOverlappingTicks == Len(ticks) <= 1

(* C7: when markAbsentStudents computes its absentees, the sampling timer  *)
(* has been stopped, and no student whose present insert is still in       *)
(* flight is among the absentees.                                          *)
C7_AbsenteesExcludeInFlight ==
    \A s \in Range(absentCall'.ids) : InsertsInFlight(s) = {}
C7_CloseSafeWithInsertInFlight ==
    [][SendsAbsentRows =>
          timers' = {} /\ C7_AbsenteesExcludeInFlight]_vars

(* C8: when the upload has succeeded and the descriptor extraction then    *)
(* fails, storage.remove is called with the uploaded path and no student   *)
(* row is inserted.                                                        *)
C8_RollbackOnNoFace ==
    [][(submitCall.pc = "descriptor" /\ submitCall'.pc = "idle") =>
          /\ submitCall.filePath \in removeCalls'
          /\ studentRows' = studentRows]_vars

(* C9: a sampling timer is created only while the camera is active and     *)
(* with a non-empty gallery; a start that fails for an empty gallery       *)
(* creates none and leaves isCapturing false.                              *)
C9_StartNeedsCameraAndGallery ==
    [][/\ \A t \in timers' \ timers :
              isWebcamActive /\ srcObject # 0 /\ t.gallery # <<>>
       /\ (error' = "Could not create face descriptors" /\ error' # error) =>
              (timers' = timers /\ ~isCapturing')]_vars

(* C10: a gallery built without some members of the roster still starts    *)
(* the loop with the others, and the step that leaves them out tells the   *)
(* operator so (the error and success banners are all the page shows of a  *)
(* start).                                                                 *)
C10_PartialGalleryReported ==
    [][\A t \in timers' \ timers :
          Len(t.gallery) < Len(t.students) =>
              /\ t.gallery # <<>>
              /\ (error' # error \/ successMessage' # successMessage)]_vars

(* C11: the gallery build always terminates: while startFaceRecognition    *)
(* awaits the gallery, it can go on to its next step (a timeout that       *)
(* excludes the slow member, or the end of the build) even when the fetch  *)
(* of one member's photo never completes.                                  *)
BuildCanProceed(i) ==
    ENABLED (\E photos \in [Students -> PhotoOutcomes] : GalleryBuilt(i, photos))
C11_GalleryBuildTerminates ==
    \A i \in 1..Len(buildCalls) : BuildCanProceed(i)

(* C12: stopWebcam stops the tracks and clears the sampling timer, and     *)
(* while the camera stays stopped no timer exists, no tick is started and  *)
(* no 'present' row is inserted, whatever was in flight at the stop.       *)
NumPresent ==
    Cardinality({i \in 1..Len(attendance) : attendance[i].status = "present"})
C12_NothingRunsAfterStop ==
    [][/\ (isWebcamActive /\ ~isWebcamActive') =>
              (liveStreams' = {} /\ timers' = {})
       /\ (~isWebcamActive /\ ~isWebcamActive') =>
              /\ timers' = {}
              /\ Len(ticks') <= Len(ticks)
              /\ NumPresent' = NumPresent]_vars

(* C13: the camera is released on every exit path: once the camera is not  *)
(* active (never started, stopped, start failed, page left) and no         *)
(* startWebcam call is still pending, no stream handed out by              *)
(* getUserMedia has a live track.                                          *)
C13_StreamReleasedOnExit ==
    (~isWebcamActive /\ webcamCalls = <<>>) => liveStreams = {}

(* C14: a failure to load the models or to open the camera is shown to     *)
(* the operator and blocks the start: the camera does not become active    *)
(* and no sampling timer exists unless the models are loaded.              *)
LoadFailed ==
    \E i \in 1..Len(webcamCalls) :
        /\ webcamCalls[i] = "loadModels"
        /\ webcamCalls' = [webcamCalls EXCEPT ![i] = "getUserMedia"]
        /\ ~isModelLoaded'
CameraFailed ==
    Len(webcamCalls') < Len(webcamCalls) /\ nStreams' = nStreams
C14_StartFailuresBlockStart ==
    [][/\ LoadFailed => error' = "Failed to load face recognition models"
       /\ CameraFailed => (error' = "Failed to access webcam" /\ ~isWebcamActive')
       /\ isWebcamActive' => isModelLoaded'
       /\ timers' # {} => isModelLoaded']_vars

(* C15: a failed insert of the absent rows is reported and leaves no       *)
(* absent row, and from the failure on, for as long as its message stands  *)
(* and the close can be pressed again, a retry would send rows for         *)
(* exactly the absentees computed by the call that failed.                 *)
CloseFailed == absentCall # NoCall /\ absentCall' = NoCall /\ attendance' = attendance
CloseFailedMessage == "Failed to mark absent students"
RetryWouldSend == absentStudentIds(students, recognizedStudents)
C15_FailedCloseKeepsAbsentees ==
    [][/\ CloseFailed =>
              /\ error' = CloseFailedMessage
              /\ RetryWouldSend' = absentCall.ids
       /\ (/\ error = CloseFailedMessage /\ error' = CloseFailedMessage
           /\ isWebcamActive' /\ isCapturing') =>
              RetryWouldSend' = RetryWouldSend]_vars

(* C16: a successful close is terminal: once markAbsentStudents has        *)
(* completed with success for the course, no sampling timer is running     *)
(* and the session inserts no further attendance row.                      *)
C16_CloseIsTerminal ==
    [][/\ ClosedFor(course)' => timers' = {}
       /\ ClosedFor(course) => attendance' = attendance]_vars

(* C17: pausing and resuming only stop and restart the sampling timer:     *)
(* neither changes the recognized set, and a resume (a start after a run   *)
(* of this session was paused) restarts the timer without building the     *)
(* gallery again.                                                          *)
PauseStep == isCapturing /\ ~isCapturing' /\ isWebcamActive'
ResumeStep == nTimers >= 1 /\ ~isCapturing /\ isCapturing'
C17_PauseResumeKeepsGallery ==
    [][/\ PauseStep => recognizedStudents' = recognizedStudents
       /\ ResumeStep =>
              /\ recognizedStudents' = recognizedStudents
              /\ buildCalls' = buildCalls
              /\ timers' # {}]_vars

(* C18: the recognized set is scoped to the session: stopWebcam discards   *)
(* it, and a session that starts (the camera becomes active) starts with   *)
(* an empty recognized set.                                                *)
SessionStops == isWebcamActive /\ ~isWebcamActive'
SessionStarts == ~isWebcamActive /\ isWebcamActive'
C18_RecognizedSetPerSession ==
    [][/\ SessionStops => recognizedStudents' = <<>>
       /\ SessionStarts => recognizedStudents' = <<>>]_vars

(* C19: a failure while one frame is processed (detection throws, or the   *)
(* present insert fails) stays within that tick: the step leaves the       *)
(* sampling timer, intervalRef and isCapturing as they were, and raises    *)
(* no error that would end the loop.                                       *)
FrameFailure ==
    \E i \in 1..Len(ticks) :
        DetectFail(i) \/ InsertDone(i, "error") \/ InsertDone(i, "throw")
C19_FrameFailureContained ==
    [][FrameFailure =>
          /\ timers' = timers
          /\ intervalRef' = intervalRef
          /\ isCapturing' = isCapturing
          /\ error' = error]_vars
(* A present insert of s1 has failed (s1 was appended to the recognized    *)
(* set, no row was stored and none is awaited), the timer is still live    *)
(* and a later tick is being processed.                                    *)
C19_LaterTickAfterFailure ==
    /\ timers # {}
    /\ isCapturing
    /\ Includes(recognizedStudents, "s1")
    /\ PresentCount("s1", "c1") = 0
    /\ InsertsInFlight("s1") = {}
    /\ \E i \in 1..Len(ticks) : ticks[i].stage = "insert"

(* C20: on a one-entry gallery the matcher returns the reference's label   *)
(* when the distance is at most the threshold and 'unknown' otherwise; a   *)
(* distance equal to the threshold is a match.                             *)
C20_MatchAtThreshold ==
    matchLabel # None =>
        (matchLabel = "s1" <=> matchDistance <= matchThreshold)


(* The badge the Attendance Status list shows for a student: the status of *)
(* the first row of attendanceRecords (newest first) with that student_id, *)
(* and no badge when there is none.                                        *)
RECURSIVE find(_, _)
find(records, s) ==
    IF records = <<>> THEN None
    ELSE IF Head(records).student_id = s THEN Head(records).status
    ELSE find(Tail(records), s)
displayedStatus(s) == find(attendanceRecords, s)
(* The status the table of today gives a student of the selected course. *)
DerivedStatus(s) ==
    IF PresentCount(s, course) >= 1 THEN "present"
    ELSE IF ClosedFor(course) THEN "absent"
    ELSE None

(* C21: once no request is in flight, the badge of every roster student is *)
(* 'present' if the table holds a present row of the student, else         *)
(* 'absent' if a close has run, else there is no badge; a student with a   *)
(* present row is never shown as absent.                                   *)
C21_DisplayedStatusDerived ==
    (NothingInFlight /\ rosterFetches = <<>>) =>
        \A s \in Range(students) : displayedStatus(s) = DerivedStatus(s)


(* C22: when every student of the roster is in the recognized set,         *)
(* markAbsentStudents sends no insert and stores no row, reports success   *)
(* and no error, and leaves isSubmitting false.                            *)
AllRecognized == Range(students) \subseteq Range(recognizedStudents)
C22_CloseWithNoAbsentees ==
    [][(markAbsentStudents /\ AllRecognized) =>
          /\ absentCall' = NoCall
          /\ attendance' = attendance
          /\ error' = None
          /\ successMessage' = "All students are present!"
          /\ ~isSubmitting']_vars
(* The close has run with both students recognized and recorded present. *)
C22_ClosedAllPresent ==
    /\ successMessage = "All students are present!"
    /\ AllRecognized
    /\ PresentCount("s1", "c1") = 1 /\ PresentCount("s2", "c1") = 1
    /\ \A i \in 1..Len(attendance) : attendance[i].status = "present"
    /\ ~isSubmitting /\ absentCall = NoCall /\ error = None


(* C23: a handleSubmit made while the models are not ready ends at once    *)
(* with an error: nothing is uploaded, no descriptor is computed, no       *)
(* student row is inserted and no call is left waiting; while the models   *)
(* are not ready no registration is in flight or stored, and after a       *)
(* failed load they never become ready.                                    *)
C23_SubmitBeforeModelsFailsFast ==
    [][/\ (handleSubmit /\ regModelLoading) =>
              /\ regError' # None
              /\ submitCall' = NoSubmit
              /\ ~isSaving'
              /\ storage' = storage
              /\ studentRows' = studentRows
       /\ regModelLoading' =>
              (submitCall' = NoSubmit /\ storage' = {} /\ studentRows' = {})
       /\ (regModelLoading /\ ~modelsCall) => regModelLoading']_vars
(* A complete form was submitted after the load of the models had failed. *)
C23_RefusedAfterFailedLoad ==
    /\ regModelLoading /\ ~modelsCall
    /\ form = FormFields
    /\ regError = "Please wait for facial recognition models to load"
    /\ submitCall = NoSubmit /\ ~isSaving
    /\ storage = {} /\ studentRows = {}


(* C24: every live sampling timer is the one whose handle intervalRef      *)
(* holds, so at most one timer is live and a pause or stop clears it.      *)
C24_TimersTrackedByRef ==
    /\ \A t \in timers : t.id = intervalRef
    /\ Cardinality(timers) <= 1


(* C25: while a recognition loop runs, the recognized set only grows: no   *)
(* step taken while a sampling timer is live removes an id from            *)
(* recognizedStudents.                                                     *)
LoopRuns == timers # {} /\ isCapturing
C25_RecognizedOnlyGrows ==
    [][(LoopRuns /\ LoopRuns') =>
          Range(recognizedStudents) \subseteq Range(recognizedStudents')]_vars


(* C26: recognizedStudents holds no id twice and no id outside the roster, *)
(* so whenever the counts are shown (the roster is not empty) Present is   *)
(* at most Total and Absent is not negative.                               *)
PresentShown == Len(recognizedStudents)
AbsentShown == Len(students) - Len(recognizedStudents)
TotalShown == Len(students)
NoDuplicates(s) == \A i, j \in 1..Len(s) : s[i] = s[j] => i = j
C26_RecognizedIsSetOfRoster ==
    students # <<>> =>
        /\ NoDuplicates(recognizedStudents)
        /\ Range(recognizedStudents) \subseteq Range(students)
        /\ PresentShown <= TotalShown
        /\ AbsentShown >= 0


(* C27: a student whose present insert returned an error does not stay in  *)
(* the recognized set without a present row: once no request is pending,   *)
(* every id of recognizedStudents has a present row in the table, and a    *)
(* close computed then leaves no student of the roster without a row.      *)
RecognizedArePersisted ==
    \A s \in Range(recognizedStudents) : PresentCount(s, course) >= 1
EnrolledCourse(s) ==
    CHOOSE c \in Courses \cup OtherCourses : Includes(Roster(c), s)
C28_RowCarriesEnrolledCourse ==
    \A i \in 1..Len(attendance) :
        attendance[i].course = EnrolledCourse(attendance[i].student_id)


(* C29: on the registration page, whenever the camera dialog is closed and *)
(* no startWebcam call is pending, no stream handed out by getUserMedia    *)
(* has a live track.                                                       *)
C29_EnrollStreamReleased ==
    (~isUsingWebcam /\ enrollWebcamCalls = 0) => enrollLiveStreams = {}


(* C30: each busy flag is set only while its call awaits a request, and    *)
(* every handleSubmit and every markAbsentStudents eventually resets its   *)
(* flag, whatever the outcome of the requests and also when the catch      *)
(* block of handleSubmit itself throws.                                    *)
C30_BusyFlagsReset ==
    /\ [](isSaving => submitCall # NoSubmit)
    /\ [](isSubmitting => absentCall # NoCall)
    /\ (isSaving ~> ~isSaving)
    /\ (isSubmitting ~> ~isSubmitting)
(* The descriptor extraction failed after the upload and the catch block   *)
(* threw before storage.remove: the call has ended with the flag reset.    *)
C30_ResetAfterCatchThrew ==
    /\ regError = "Failed to register student"
    /\ storage # {} /\ removeCalls = {} /\ studentRows = {}
    /\ submitCall = NoSubmit
    /\ ~isSaving
=============================================================================
